---- MODULE Spec2Model ----
(***************************************************************************)
(* The connection registry and broadcast engine of the live chat backend: *)
(* ConnectionManager (backend/server/websocket/manager.py) and the        *)
(* websocket_endpoint handler (backend/server/websocket/routes.py).       *)
(*                                                                         *)
(* Every client connection is served by one asyncio task running          *)
(* websocket_endpoint.  A task runs without interruption until it reaches  *)
(* an await (accept, send_json, receive_text); only there can another task *)
(* run.  pc[c] is the position of the task of connection c.  The positions *)
(* "accept", "send" and "receive" are the awaits; in every other           *)
(* non-terminal position the task holds the event loop and no other task   *)
(* takes a step.                                                           *)
(***************************************************************************)
EXTENDS Integers, Sequences, FiniteSets, TLC

\* ---------------------------------------------------------------- bounds
NumConns == 3
NumCallers == 2
NumRooms == 2
MaxChats == 1
MaxLimit == 2
MaxUserId == 3

\* The websocket objects, and those of them whose clients connect under Spec.
Conns == 1..NumConns
Callers == 1..NumCallers
Rooms == 1..NumRooms
NoConn == 0
NoList == 0

\* The (user_id, username) query parameters a client may connect with.
Users ==
    { [user_id |-> 1, username |-> "alice"],
      [user_id |-> 2, username |-> "bob"] }

\* Values of the "content" field of an inbound payload, as character lists.
Contents == { <<"h", "i">>, <<" ", "h", "i", " ">>, <<" ", " ">> }

\* The texts a client may send: a JSON object with a "content" string, a
\* JSON object without "content", a text that is not JSON, a JSON array, and
\* a JSON object whose "content" is the number 5 (number marks that the
\* value is not a string).
Texts ==
    { [json |-> "object", content |-> x] : x \in Contents }
        \cup { [json |-> "object"], [json |-> "invalid"], [json |-> "array"],
               [json |-> "object", content |-> <<"5">>, number |-> TRUE] }

VARIABLES
    active_connections,  \* dict room_id -> list of connections
    user_info,           \* dict connection -> {user_id, username, room_id}
    list_id,             \* per room: how many list objects were created for it
    db,                  \* committed rows of the Message table, in commit order
    pc,                  \* position of each connection's handler task
    args,                \* dict connection -> arguments of its handler
    call,                \* dict connection -> locals of its broadcast_to_room call
    alive,               \* the client's end of the transport is still open
    received,            \* per connection: the events delivered to its client
    clock,               \* datetime.now(), as a counter
    chats,               \* texts received so far (bounded by MaxChats)
    data,                \* dict connection -> the text it received last
    rolled_back,         \* messages whose commit failed (rollback, HTTPException)
    connected,           \* connections whose connect() completed
    removed,             \* connections disconnect() returned metadata for
    response,            \* the last get_room_messages request and its result
    users,               \* the rows of the users table
    user_response        \* the last /user request and its status code

vars ==
    << active_connections, user_info, list_id, db, pc, args, call, alive,
       received, clock, chats, data, rolled_back, connected, removed,
       response, users, user_response >>

\* ------------------------------------------------------- dicts and lists
Empty == [x \in {} |-> NoConn]

DictSet(d, k, v) == [x \in DOMAIN d \cup {k} |-> IF x = k THEN v ELSE d[x]]

DictDel(d, k) == [x \in DOMAIN d \ {k} |-> d[x]]

Elems(l) == { l[i] : i \in 1..Len(l) }

\* Index of the first occurrence of x in l, 0 when there is none.
IndexOf(l, x) ==
    IF x \in Elems(l)
    THEN CHOOSE i \in 1..Len(l) : l[i] = x /\ \A j \in 1..(i - 1) : l[j] # x
    ELSE 0

\* Mutant: the list drops its last element (pop) instead of x.
ListRemovePopsLast(l, x) == SubSeq(l, 1, Len(l) - 1)

\* list.remove(x): drops the first occurrence of x.
ListRemove(l, x) ==
    LET k == IndexOf(l, x)
    IN  IF k = 0 THEN l
        ELSE [i \in 1..(Len(l) - 1) |-> IF i < k THEN l[i] ELSE l[i + 1]]

\* str.strip() on a character list.
RECURSIVE LStrip(_)
LStrip(s) == IF s # <<>> /\ Head(s) = " " THEN LStrip(Tail(s)) ELSE s

RECURSIVE RStrip(_)
RStrip(s) ==
    IF s # <<>> /\ s[Len(s)] = " " THEN RStrip(SubSeq(s, 1, Len(s) - 1)) ELSE s

\* Mutant: the content is not trimmed.
StripNothing(s) == s

Strip(s) == RStrip(LStrip(s))

\* json.loads(data) returns rather than raises.
Loads(text) == text.json # "invalid"

\* The decoded value has a get method: it is a dict.
HasGet(message_data) == message_data.json = "object"

\* The value of "content" has a strip method: it is a str.
HasStrip(message_data) == "number" \notin DOMAIN message_data

\* message_data.get("content", "")
GetContent(message_data) ==
    IF "content" \in DOMAIN message_data THEN message_data.content ELSE <<>>

\* ------------------------------------------------------------- messages
JoinedMessage(a, now) ==
    [ type |-> "user_joined", user_id |-> a.user_id, username |-> a.username,
      timestamp |-> now, message |-> <<a.username, " joined the room :)">> ]

\* Mutant: the chat message carries the room id in place of the user id.
ChatMessageSwapsIds(a, content, now) ==
    [ type |-> "message", content |-> content, user_id |-> a.room_id,
      username |-> a.username, room_id |-> a.room_id, timestamp |-> now ]

ChatMessage(a, content, now) ==
    [ type |-> "message", content |-> content, user_id |-> a.user_id,
      username |-> a.username, room_id |-> a.room_id, timestamp |-> now ]

LeftMessage(user_data, now) ==
    [ type |-> "user_left", user_id |-> user_data.user_id,
      username |-> user_data.username, timestamp |-> now,
      message |-> <<user_data.username, " left the room :(">> ]

\* The Message row broadcast_to_room adds; content stands for the JSON text.
Row(message, user_id, room_id) ==
    [ content |-> message, user_id |-> user_id, room_id |-> room_id ]

\* Mutant: the row is added but never committed.
CommitNothing(rows, row) == rows

\* db.add + db.commit
Commit(rows, row) == Append(rows, row)

\* The rows .where(Message.room_id == room_id) selects, as positions in rows.
RoomRows(rows, room_id) == { k \in DOMAIN rows : rows[k].room_id = room_id }

\* What .where(...).limit(max).all() may return: the query states no order,
\* so any max of the room's rows (all of them when they are fewer), in any
\* order.
FetchResults(rows, room_id, max) ==
    LET K == RoomRows(rows, room_id)
        n == IF max < Cardinality(K) THEN max ELSE Cardinality(K)
    IN  { [i \in 1..n |-> rows[f[i]]] :
              f \in { g \in [1..n -> K] :
                          \A i, j \in 1..n : g[i] = g[j] => i = j } }

\* ------------------------------------------------------------- registry
Registry == [ active_connections |-> active_connections,
              user_info |-> user_info, list_id |-> list_id ]

\* Mutant: connect assigns a new one-element list instead of appending.
RegistryConnectOverwrites(reg, websocket, room_id, user_id, username) ==
    [ active_connections |->
          DictSet(reg.active_connections, room_id, <<websocket>>),
      user_info |->
          DictSet(reg.user_info, websocket,
                  [ user_id |-> user_id, username |-> username,
                    room_id |-> room_id ]),
      list_id |-> [reg.list_id EXCEPT ![room_id] = @ + 1] ]

\* Mutant: connect appends the connection to the list keyed by room_id and
\* also to the list keyed by user_id.
RegistryConnectAlsoByUser(reg, websocket, room_id, user_id, username) ==
    LET ensure(lists, k) == IF k \in DOMAIN lists THEN lists ELSE DictSet(lists, k, <<>>)
        l1 == ensure(reg.active_connections, room_id)
        l2 == DictSet(l1, room_id, Append(l1[room_id], websocket))
        l3 == ensure(l2, user_id)
    IN  [ active_connections |->
              IF user_id = room_id THEN l2
              ELSE DictSet(l3, user_id, Append(l3[user_id], websocket)),
          user_info |->
              DictSet(reg.user_info, websocket,
                      [ user_id |-> user_id, username |-> username,
                        room_id |-> room_id ]),
          list_id |-> reg.list_id ]

\* Mutant: connect also moves the metadata of the user's other connections
\* to the new room.
RegistryConnectMovesUser(reg, websocket, room_id, user_id, username) ==
    LET fresh == room_id \notin DOMAIN reg.active_connections
        lists == IF fresh
                 THEN DictSet(reg.active_connections, room_id, <<>>)
                 ELSE reg.active_connections
        moved == [ x \in DOMAIN reg.user_info |->
                       IF reg.user_info[x].user_id = user_id
                       THEN [reg.user_info[x] EXCEPT !.room_id = room_id]
                       ELSE reg.user_info[x] ]
    IN  [ active_connections |->
              DictSet(lists, room_id, Append(lists[room_id], websocket)),
          user_info |->
              DictSet(moved, websocket,
                      [ user_id |-> user_id, username |-> username,
                        room_id |-> room_id ]),
          list_id |->
              IF fresh THEN [reg.list_id EXCEPT ![room_id] = @ + 1]
              ELSE reg.list_id ]

\* Mutant: connect inserts the connection at the head of the room's list.
RegistryConnectPrepends(reg, websocket, room_id, user_id, username) ==
    LET fresh == room_id \notin DOMAIN reg.active_connections
        lists == IF fresh
                 THEN DictSet(reg.active_connections, room_id, <<>>)
                 ELSE reg.active_connections
    IN  [ active_connections |->
              DictSet(lists, room_id, <<websocket>> \o lists[room_id]),
          user_info |->
              DictSet(reg.user_info, websocket,
                      [ user_id |-> user_id, username |-> username,
                        room_id |-> room_id ]),
          list_id |->
              IF fresh THEN [reg.list_id EXCEPT ![room_id] = @ + 1]
              ELSE reg.list_id ]

\* Mutant: connect appends the connection to the room's list twice.
RegistryConnectAppendsTwice(reg, websocket, room_id, user_id, username) ==
    LET fresh == room_id \notin DOMAIN reg.active_connections
        lists == IF fresh
                 THEN DictSet(reg.active_connections, room_id, <<>>)
                 ELSE reg.active_connections
    IN  [ active_connections |->
              DictSet(lists, room_id,
                      Append(Append(lists[room_id], websocket), websocket)),
          user_info |->
              DictSet(reg.user_info, websocket,
                      [ user_id |-> user_id, username |-> username,
                        room_id |-> room_id ]),
          list_id |->
              IF fresh THEN [reg.list_id EXCEPT ![room_id] = @ + 1]
              ELSE reg.list_id ]

\* ConnectionManager.connect after the handshake: lines 81-93.
RegistryConnect(reg, websocket, room_id, user_id, username) ==
    LET fresh == room_id \notin DOMAIN reg.active_connections
        lists == IF fresh
                 THEN DictSet(reg.active_connections, room_id, <<>>)
                 ELSE reg.active_connections
    IN  [ active_connections |->
              DictSet(lists, room_id, Append(lists[room_id], websocket)),
          user_info |->
              DictSet(reg.user_info, websocket,
                      [ user_id |-> user_id, username |-> username,
                        room_id |-> room_id ]),
          list_id |->
              IF fresh THEN [reg.list_id EXCEPT ![room_id] = @ + 1]
              ELSE reg.list_id ]

\* Mutant: disconnect forgets "del self.user_info[websocket]".
RegistryDisconnectKeepsInfo(reg, websocket) ==
    IF websocket \in DOMAIN reg.user_info
    THEN LET room_id == reg.user_info[websocket].room_id
             l == ListRemove(reg.active_connections[room_id], websocket)
         IN  [ reg EXCEPT !.active_connections =
                   IF room_id \notin DOMAIN reg.active_connections THEN @
                   ELSE IF l = <<>> THEN DictDel(@, room_id)
                   ELSE DictSet(@, room_id, l) ]
    ELSE reg

\* Mutant: disconnect leaves the emptied list of a room in place.
RegistryDisconnectKeepsRoom(reg, websocket) ==
    IF websocket \in DOMAIN reg.user_info
    THEN LET room_id == reg.user_info[websocket].room_id
         IN  [ active_connections |->
                   IF room_id \in DOMAIN reg.active_connections
                   THEN DictSet(reg.active_connections, room_id,
                                ListRemove(reg.active_connections[room_id], websocket))
                   ELSE reg.active_connections,
               user_info |-> DictDel(reg.user_info, websocket),
               list_id |-> reg.list_id ]
    ELSE reg

\* ConnectionManager.disconnect: the registry it leaves.
RegistryDisconnect(reg, websocket) ==
    IF websocket \in DOMAIN reg.user_info
    THEN LET room_id == reg.user_info[websocket].room_id
             lists ==
                 IF room_id \in DOMAIN reg.active_connections
                 THEN LET l == ListRemove(reg.active_connections[room_id], websocket)
                      IN  IF l = <<>>
                          THEN DictDel(reg.active_connections, room_id)
                          ELSE DictSet(reg.active_connections, room_id, l)
                 ELSE reg.active_connections
         IN  [ active_connections |-> lists,
               user_info |-> DictDel(reg.user_info, websocket),
               list_id |-> reg.list_id ]
    ELSE reg

\* ConnectionManager.disconnect: whether its list.remove raises ValueError,
\* which it does when the websocket is not in the list it is removed from.
RemoveRaises(reg, websocket) ==
    /\ websocket \in DOMAIN reg.user_info
    /\ reg.user_info[websocket].room_id \in DOMAIN reg.active_connections
    /\ websocket \notin
           Elems(reg.active_connections[reg.user_info[websocket].room_id])

\* ConnectionManager.disconnect: whether it returns metadata (not None).
HasUserData(reg, websocket) == websocket \in DOMAIN reg.user_info

\* The loop "for connection in disconnected: self.disconnect(connection)".
RECURSIVE DisconnectAll(_, _)
DisconnectAll(reg, disconnected) ==
    IF disconnected = <<>> THEN reg
    ELSE DisconnectAll(RegistryDisconnect(reg, Head(disconnected)), Tail(disconnected))

\* Whether a disconnect of the cleanup loop raises.
RECURSIVE CleanupRaises(_, _)
CleanupRaises(reg, disconnected) ==
    IF disconnected = <<>> THEN FALSE
    ELSE \/ RemoveRaises(reg, Head(disconnected))
         \/ CleanupRaises(RegistryDisconnect(reg, Head(disconnected)),
                          Tail(disconnected))

\* The connections of `disconnected` for which disconnect returns metadata.
RECURSIVE Dropped(_, _)
Dropped(reg, disconnected) ==
    IF disconnected = <<>> THEN {}
    ELSE (IF HasUserData(reg, Head(disconnected)) THEN {Head(disconnected)} ELSE {})
         \cup Dropped(RegistryDisconnect(reg, Head(disconnected)), Tail(disconnected))

\* The list object an iterator created on list number lst of room_id walks:
\* the room's current list while it is that object, else the emptied old one.
IterList(room_id, lst) ==
    IF room_id \in DOMAIN active_connections /\ list_id[room_id] = lst
    THEN active_connections[room_id]
    ELSE <<>>

\* ------------------------------------------------------------ positions
Awaiting == {"accept", "send", "receive"}
Ended == {"done", "failed", "crashed"}

\* No task holds the event loop.
Quiet == \A c \in Conns : pc[c] \in Awaiting \cup Ended \cup {"idle"}

\* Mutant: after its user_left broadcast the handler connects again.
ReturnReconnects(kind) == IF kind = "left" THEN "accept" ELSE "receive"

\* Where the handler continues after broadcast_to_room returns.
Return(kind) == IF kind = "left" THEN "done" ELSE "receive"

\* Mutant: no exception is caught inside the receive loop.
RaiseUncaught(kind) == "crashed"

\* Where an exception leaves the handler: inside the try block of the receive
\* loop (call site "chat") it is caught by "except Exception" and the loop
\* goes on; the HTTPException of a join or left broadcast is not caught.
Raise(kind) == IF kind = "chat" THEN "receive" ELSE "crashed"

\* The locals of one broadcast_to_room call: its message, the iterator of its
\* for loop (the list object lst and the index idx of the next element), the
\* loop variable and the disconnected list.  kind tells the call site; sent
\* tells whether the pending send_json has put its frame on the wire;
\* members0 remembers the members of the room when the loop started.
Frame(kind, message) ==
    [ kind |-> kind, message |-> message, lst |-> NoList, idx |-> 0,
      connection |-> NoConn, sent |-> FALSE, disconnected |-> <<>>,
      members0 |-> {} ]

\* No /user request has been served yet.
NoRequest ==
    [ op |-> "none", username |-> "", email |-> "", user_id |-> 0,
      status_code |-> 0 ]

Init ==
    /\ active_connections = Empty
    /\ user_info = Empty
    /\ list_id = [r \in Rooms |-> 0]
    /\ db = <<>>
    /\ pc = [c \in Conns |-> "idle"]
    /\ args = Empty
    /\ call = Empty
    /\ alive = [c \in Conns |-> TRUE]
    /\ received = [c \in Conns |-> <<>>]
    /\ clock = 0
    /\ chats = 0
    /\ data = Empty
    /\ rolled_back = {}
    /\ connected = {}
    /\ removed = {}
    /\ response = [room_id |-> 0, max |-> 0, messages |-> <<>>]
    /\ users = {}
    /\ user_response = NoRequest

\* -------------------------------------------------------------- actions
SetRegistry(reg) ==
    /\ active_connections' = reg.active_connections
    /\ user_info' = reg.user_info
    /\ list_id' = reg.list_id

\* A client opens connection c: websocket_endpoint starts, takes a db session
\* and suspends in "await websocket.accept()" inside manager.connect.
\* Connections are interchangeable, and so are rooms: connections are opened
\* in index order, and a room is first used after all rooms below it.
Open(c, room_id, u) ==
    /\ Quiet
    /\ pc[c] = "idle"
    /\ \A b \in Conns : b < c => pc[b] # "idle"
    /\ \A r \in Rooms : r < room_id => \E b \in DOMAIN args : args[b].room_id = r
    /\ pc' = [pc EXCEPT ![c] = "accept"]
    /\ args' = DictSet(args, c, [ room_id |-> room_id, user_id |-> u.user_id,
                                  username |-> u.username ])
    /\ UNCHANGED << active_connections, user_info, list_id, db, call, alive,
                    received, clock, chats, data, rolled_back, connected, removed,
                    response, users, user_response >>

\* The client's end of the transport closes or breaks.
ClientClose(c) ==
    /\ Quiet
    /\ pc[c] \notin {"idle", "done", "failed"}
    /\ alive[c]
    /\ alive' = [alive EXCEPT ![c] = FALSE]
    /\ UNCHANGED << active_connections, user_info, list_id, db, pc, args, response, users, user_response, call,
                    received, clock, chats, data, rolled_back, connected, removed >>

\* Mutant: connect registers the connection before the handshake, so a
\* failed accept() leaves it registered.
AcceptFailRegistered(c) ==
    /\ Quiet
    /\ pc[c] = "accept"
    /\ ~alive[c]
    /\ SetRegistry(RegistryConnect(Registry, c, args[c].room_id,
                                   args[c].user_id, args[c].username))
    /\ \E next \in {"except", "failed"} : pc' = [pc EXCEPT ![c] = next]
    /\ UNCHANGED << db, args, response, users, user_response, call, alive, received, clock, chats, data, rolled_back,
                    connected, removed >>

\* accept() raises.  WebSocketDisconnect is caught by the handler's except
\* clause; any other exception leaves the handler.
AcceptFail(c) ==
    /\ Quiet
    /\ pc[c] = "accept"
    /\ ~alive[c]
    /\ \E next \in {"except", "failed"} : pc' = [pc EXCEPT ![c] = next]
    /\ UNCHANGED << active_connections, user_info, list_id, db, args, response, users, user_response, call,
                    alive, received, clock, chats, data, rolled_back, connected, removed >>

\* accept() returns: the rest of manager.connect registers the connection,
\* and the handler builds the user_joined message.
AcceptOk(c) ==
    /\ Quiet
    /\ pc[c] = "accept"
    /\ alive[c]
    /\ SetRegistry(RegistryConnect(Registry, c, args[c].room_id,
                                   args[c].user_id, args[c].username))
    /\ connected' = connected \cup {c}
    /\ call' = DictSet(call, c, Frame("join", JoinedMessage(args[c], clock)))
    /\ clock' = clock + 1
    /\ pc' = [pc EXCEPT ![c] = "join"]
    /\ UNCHANGED << db, args, response, users, user_response, alive, received, chats, data, rolled_back, removed >>

\* receive_text() returns a text.  A text json.loads rejects, a decoded value
\* without get and a content without strip raise inside the try block, which
\* logs the exception; content that is empty after strip() is skipped;
\* otherwise the handler builds the chat message.
RecvText(c, text) ==
    /\ Quiet
    /\ pc[c] = "receive"
    /\ alive[c]
    /\ chats < MaxChats
    /\ chats' = chats + 1
    /\ data' = DictSet(data, c, text)
    /\ IF ~Loads(text) \/ ~HasGet(text) \/ ~HasStrip(text)
       THEN /\ pc' = [pc EXCEPT ![c] = Raise("chat")]
            /\ UNCHANGED << call, clock >>
       ELSE IF Strip(GetContent(text)) = <<>>
       THEN UNCHANGED << pc, call, clock >>
       ELSE /\ call' = DictSet(call, c,
                         Frame("chat", ChatMessage(args[c], Strip(GetContent(text)),
                                                   clock)))
            /\ clock' = clock + 1
            /\ pc' = [pc EXCEPT ![c] = "chat"]
    /\ UNCHANGED << active_connections, user_info, list_id, db, args, response, users, user_response, alive,
                    received, rolled_back, connected, removed >>

\* receive_text() raises WebSocketDisconnect.
RecvDisconnect(c) ==
    /\ Quiet
    /\ pc[c] = "receive"
    /\ ~alive[c]
    /\ pc' = [pc EXCEPT ![c] = "except"]
    /\ UNCHANGED << active_connections, user_info, list_id, db, args, response, users, user_response, call,
                    alive, received, clock, chats, data, rolled_back, connected, removed >>

\* Mutant: the except clause announces the departure without looking at what
\* disconnect returned, from the handler's own parameters.
HandleDisconnectAlwaysNotifies(c) ==
    /\ pc[c] = "except"
    /\ SetRegistry(RegistryDisconnect(Registry, c))
    /\ removed' = IF HasUserData(Registry, c) THEN removed \cup {c} ELSE removed
    /\ call' = DictSet(call, c, Frame("left", LeftMessage(args[c], clock)))
    /\ clock' = clock + 1
    /\ pc' = [pc EXCEPT ![c] = "left"]
    /\ UNCHANGED << db, args, response, users, user_response, alive, received, chats, data, rolled_back, connected >>

\* The handler's "except WebSocketDisconnect" clause: manager.disconnect, and
\* the user_left message when metadata came back.
HandleDisconnect(c) ==
    /\ pc[c] = "except"
    /\ SetRegistry(RegistryDisconnect(Registry, c))
    /\ IF HasUserData(Registry, c)
       THEN /\ removed' = removed \cup {c}
            /\ call' = DictSet(call, c, Frame("left", LeftMessage(user_info[c], clock)))
            /\ clock' = clock + 1
            /\ pc' = [pc EXCEPT ![c] = "left"]
       ELSE /\ pc' = [pc EXCEPT ![c] = "done"]
            /\ UNCHANGED << removed, call, clock >>
    /\ UNCHANGED << db, args, response, users, user_response, alive, received, chats, data, rolled_back, connected >>

\* Mutant: the for loop walks the list of the lowest room that has an entry,
\* whatever room the call was made for.
BeginLoopFirstRoom(c, room_id) ==
    LET first == CHOOSE r \in DOMAIN active_connections :
                     \A q \in DOMAIN active_connections : r <= q
        l == active_connections[first]
        f == [call[c] EXCEPT !.lst = list_id[room_id], !.members0 = Elems(l)]
    IN  IF l = <<>>
        THEN /\ pc' = [pc EXCEPT ![c] = "cleanup"]
             /\ call' = [call EXCEPT ![c] = f]
        ELSE /\ pc' = [pc EXCEPT ![c] = "send"]
             /\ call' = [call EXCEPT ![c] = [f EXCEPT !.idx = 1, !.connection = l[1]]]

\* The for loop starts: an iterator on the room's list object, and the first
\* send_json, in which the task suspends.
BeginLoop(c, room_id) ==
    LET l == active_connections[room_id]
        f == [call[c] EXCEPT !.lst = list_id[room_id], !.members0 = Elems(l)]
    IN  IF l = <<>>
        THEN /\ pc' = [pc EXCEPT ![c] = "cleanup"]
             /\ call' = [call EXCEPT ![c] = f]
        ELSE /\ pc' = [pc EXCEPT ![c] = "send"]
             /\ call' = [call EXCEPT ![c] = [f EXCEPT !.idx = 1, !.connection = l[1]]]

\* Mutant: the except clause rolls back but does not raise, so the call
\* goes on to the send loop.
OnIntegrityErrorNoRaise(c, room_id) ==
    /\ rolled_back' = rolled_back \cup {[conn |-> c, message |-> call[c].message]}
    /\ BeginLoop(c, room_id)

\* except IntegrityError: db.rollback() and raise HTTPException(400).
OnIntegrityError(c, room_id) ==
    /\ rolled_back' = rolled_back \cup {[conn |-> c, message |-> call[c].message]}
    /\ pc' = [pc EXCEPT ![c] = Raise(call[c].kind)]
    /\ call' = DictDel(call, c)

\* Mutant: broadcast_to_room persists the message before it looks for the
\* room.
BroadcastBeginPersistsFirst(c) ==
    /\ pc[c] \in {"join", "chat", "left"}
    /\ LET room_id == args[c].room_id
       IN  IF room_id \notin DOMAIN active_connections
           THEN /\ db' = Commit(db, Row(call[c].message, args[c].user_id, room_id))
                /\ pc' = [pc EXCEPT ![c] = Return(call[c].kind)]
                /\ call' = DictDel(call, c)
                /\ UNCHANGED rolled_back
           ELSE \/ /\ db' = Commit(db, Row(call[c].message, args[c].user_id, room_id))
                   /\ BeginLoop(c, room_id)
                   /\ UNCHANGED rolled_back
                \/ /\ OnIntegrityError(c, room_id)
                   /\ UNCHANGED db
    /\ UNCHANGED << active_connections, user_info, list_id, args, response, users, user_response, alive,
                    received, clock, chats, data, connected, removed >>

\* broadcast_to_room up to its first await: the room check, the commit, and
\* the start of the loop over the room's list.
BroadcastBegin(c) ==
    /\ pc[c] \in {"join", "chat", "left"}
    /\ LET room_id == args[c].room_id
       IN  IF room_id \notin DOMAIN active_connections
           THEN /\ pc' = [pc EXCEPT ![c] = Return(call[c].kind)]
                /\ call' = DictDel(call, c)
                /\ UNCHANGED << db, rolled_back >>
           ELSE \/ /\ db' = Commit(db, Row(call[c].message, args[c].user_id, room_id))
                   /\ BeginLoop(c, room_id)
                   /\ UNCHANGED rolled_back
                \/ /\ OnIntegrityError(c, room_id)
                   /\ UNCHANGED db
    /\ UNCHANGED << active_connections, user_info, list_id, args, response, users, user_response, alive,
                    received, clock, chats, data, connected, removed >>

\* The pending send_json puts its frame on the wire: the client receives the
\* event.  This happens at some point between the call and its return.
Transmit(c) ==
    /\ Quiet
    /\ pc[c] = "send"
    /\ ~call[c].sent
    /\ alive[call[c].connection]
    /\ received' = [received EXCEPT ![call[c].connection] = Append(@, call[c].message)]
    /\ call' = [call EXCEPT ![c].sent = TRUE]
    /\ UNCHANGED << active_connections, user_info, list_id, db, pc, args, response, users, user_response, alive,
                    clock, chats, data, rolled_back, connected, removed >>

\* Mutant: a send_json that raises is tried again, on the same connection.
SendDoneRetriesFailed(c) ==
    /\ Quiet
    /\ pc[c] = "send"
    /\ LET f == call[c]
           target == f.connection
           l == IterList(args[c].room_id, f.lst)
       IN  /\ received' = IF alive[target] /\ ~f.sent
                          THEN [received EXCEPT ![target] = Append(@, f.message)]
                          ELSE received
           /\ IF ~alive[target]
              THEN UNCHANGED << call, pc >>
              ELSE IF f.idx < Len(l)
              THEN /\ call' = [call EXCEPT ![c].idx = f.idx + 1,
                                           ![c].connection = l[f.idx + 1],
                                           ![c].sent = FALSE]
                   /\ UNCHANGED pc
              ELSE /\ call' = [call EXCEPT ![c].connection = NoConn,
                                           ![c].sent = FALSE]
                   /\ pc' = [pc EXCEPT ![c] = "cleanup"]
    /\ UNCHANGED << active_connections, user_info, list_id, db, args, response, users, user_response, alive,
                    clock, chats, data, rolled_back, connected, removed >>

\* The pending send_json returns, or raises because the connection is gone,
\* and the loop goes on to the next element of the list it iterates, or ends.
SendDone(c) ==
    /\ Quiet
    /\ pc[c] = "send"
    /\ LET f == call[c]
           target == f.connection
           l == IterList(args[c].room_id, f.lst)
           failed == IF alive[target] THEN f.disconnected
                     ELSE Append(f.disconnected, target)
       IN  /\ received' = IF alive[target] /\ ~f.sent
                          THEN [received EXCEPT ![target] = Append(@, f.message)]
                          ELSE received
           /\ IF f.idx < Len(l)
              THEN /\ call' = [call EXCEPT ![c].disconnected = failed,
                                           ![c].idx = f.idx + 1,
                                           ![c].connection = l[f.idx + 1],
                                           ![c].sent = FALSE]
                   /\ UNCHANGED pc
              ELSE /\ call' = [call EXCEPT ![c].disconnected = failed,
                                           ![c].connection = NoConn,
                                           ![c].sent = FALSE]
                   /\ pc' = [pc EXCEPT ![c] = "cleanup"]
    /\ UNCHANGED << active_connections, user_info, list_id, db, args, response, users, user_response, alive,
                    clock, chats, data, rolled_back, connected, removed >>

\* After the loop: disconnect every connection whose send failed, and return
\* to the handler.
Cleanup(c) ==
    /\ pc[c] = "cleanup"
    /\ SetRegistry(DisconnectAll(Registry, call[c].disconnected))
    /\ removed' = removed \cup Dropped(Registry, call[c].disconnected)
    /\ pc' = [pc EXCEPT ![c] = Return(call[c].kind)]
    /\ call' = DictDel(call, c)
    /\ UNCHANGED << db, args, response, users, user_response, alive, received, clock, chats, data, rolled_back, connected >>

\* A GET /ws/{room_id}/messages request: the handler has no await, so it runs
\* whenever no task holds the event loop.
GetRoomMessages(room_id, max) ==
    /\ Quiet
    /\ \E messages \in FetchResults(db, room_id, max) :
           response' = [room_id |-> room_id, max |-> max, messages |-> messages]
    /\ UNCHANGED << active_connections, user_info, list_id, db, pc, args, call,
                    alive, received, clock, chats, data, rolled_back, connected,
                    removed, users, user_response >>

\* ---------------------------------------------------------- user routes
Usernames == {"alice", "bob", "carol"}
Emails == {"alice@ku.edu", "bob@ku.edu", "carol@ku.edu"}
UserIds == 1..MaxUserId

\* db.query(User).filter(User.username == username): the rows it matches.
UserFromUsername(rows, username) == { u \in rows : u.username = username }

\* db.query(User).filter(User.email == email): the rows it matches.
UserFromEmail(rows, email) == { u \in rows : u.email = email }

\* db.query(User).filter(User.id == user_id): the rows it matches.
UserFromId(rows, user_id) == { u \in rows : u.id = user_id }

\* The unique constraints of the users table on username and on email: the
\* commit of new_user raises IntegrityError.
UniqueViolation(rows, new_user) ==
    \E u \in rows : u.username = new_user.username \/ u.email = new_user.email

\* The id an INTEGER PRIMARY KEY column of SQLite gives a new row: one more
\* than the largest id in the table.
NextRowId(rows) ==
    IF rows = {} THEN 1
    ELSE 1 + (CHOOSE n \in { u.id : u \in rows } : \A u \in rows : u.id <= n)

\* Mutant: create_user looks for the username only, and the table has no
\* unique constraint.
CreateUserChecksUsernameOnly(username, email) ==
    /\ Quiet
    /\ LET new_user == [ id |-> NextRowId(users), username |-> username,
                         email |-> email ]
           refuse == /\ users' = users
                     /\ user_response' =
                            [ op |-> "create", username |-> username,
                              email |-> email, user_id |-> 0, status_code |-> 400 ]
       IN  IF UserFromUsername(users, username) # {} THEN refuse
           ELSE /\ new_user.id <= MaxUserId
                /\ users' = users \cup {new_user}
                /\ user_response' =
                       [ op |-> "create", username |-> username, email |-> email,
                         user_id |-> new_user.id, status_code |-> 201 ]
    /\ UNCHANGED << active_connections, user_info, list_id, db, pc, args, call,
                    alive, received, clock, chats, data, rolled_back, connected,
                    removed, response >>

\* POST /user/: the handler has no await, so it runs whenever no task holds
\* the event loop.  A row is its id, username and email; the password hash
\* and the dates play no part in what the handler decides.
CreateUser(username, email) ==
    /\ Quiet
    /\ LET new_user == [ id |-> NextRowId(users), username |-> username,
                         email |-> email ]
           refuse == /\ users' = users
                     /\ user_response' =
                            [ op |-> "create", username |-> username,
                              email |-> email, user_id |-> 0, status_code |-> 400 ]
       IN  IF UserFromUsername(users, username) # {} THEN refuse
           ELSE IF UserFromEmail(users, email) # {} THEN refuse
           ELSE IF UniqueViolation(users, new_user) THEN refuse
           ELSE /\ new_user.id <= MaxUserId
                /\ users' = users \cup {new_user}
                /\ user_response' =
                       [ op |-> "create", username |-> username, email |-> email,
                         user_id |-> new_user.id, status_code |-> 201 ]
    /\ UNCHANGED << active_connections, user_info, list_id, db, pc, args, call,
                    alive, received, clock, chats, data, rolled_back, connected,
                    removed, response >>

\* DELETE /user/{user_id}: 404 without the row; else the row is deleted, and
\* with it, by the cascade of User.messages, the messages of that user.
DeleteUser(user_id) ==
    /\ Quiet
    /\ IF UserFromId(users, user_id) = {}
       THEN /\ UNCHANGED << users, db >>
            /\ user_response' =
                   [ op |-> "delete", username |-> "", email |-> "",
                     user_id |-> user_id, status_code |-> 404 ]
       ELSE /\ users' = users \ UserFromId(users, user_id)
            /\ db' = LET kept(row) == row.user_id # user_id IN SelectSeq(db, kept)
            /\ user_response' =
                   [ op |-> "delete", username |-> "", email |-> "",
                     user_id |-> user_id, status_code |-> 204 ]
    /\ UNCHANGED << active_connections, user_info, list_id, pc, args, call,
                    alive, received, clock, chats, data, rolled_back, connected,
                    removed, response >>

Next ==
    \/ \E c \in Callers, room_id \in Rooms, u \in Users : Open(c, room_id, u)
    \/ \E c \in Conns : ClientClose(c)
    \/ \E c \in Conns : AcceptFail(c)
    \/ \E c \in Conns : AcceptOk(c)
    \/ \E c \in Conns, text \in Texts : RecvText(c, text)
    \/ \E c \in Conns : RecvDisconnect(c)
    \/ \E c \in Conns : HandleDisconnect(c)
    \/ \E c \in Conns : BroadcastBegin(c)
    \/ \E c \in Conns : Transmit(c)
    \/ \E c \in Conns : SendDone(c)
    \/ \E c \in Conns : Cleanup(c)

Spec == Init /\ [][Next]_vars

\* One room under churn: every connection joins room 1, the first as alice
\* and the others as bob; no client sends a text, every commit succeeds, an
\* event reaches its client when send_json returns, and clients other than
\* the last one close while their handler is suspended in a send or a
\* receive.
NextJoinLeave ==
    \/ \E c \in Conns, u \in Users :
           u.user_id = (IF c = 1 THEN 1 ELSE 2) /\ Open(c, 1, u)
    \/ \E c \in Conns \ {NumConns} :
           pc[c] \in {"send", "receive"} /\ ClientClose(c)
    \/ \E c \in Conns : AcceptOk(c)
    \/ \E c \in Conns : RecvDisconnect(c)
    \/ \E c \in Conns : HandleDisconnect(c)
    \/ \E c \in Conns : BroadcastBegin(c) /\ rolled_back' = rolled_back
    \/ \E c \in Conns : SendDone(c)
    \/ \E c \in Conns : Cleanup(c)

SpecJoinLeave == Init /\ [][NextJoinLeave]_vars

\* A slow consumer: the client of connection SlowConsumer reads so slowly that
\* a send_json to it may stay suspended for ever.  Every connection joins
\* room 1, no client closes or sends a text, and every commit succeeds.
SlowConsumer == 1

JoinRoomOne == \E c \in Conns, u \in Users :
    u.user_id = (IF c = 1 THEN 1 ELSE 2) /\ Open(c, 1, u)

CommitAndBegin == \E c \in Conns :
    BroadcastBegin(c) /\ rolled_back' = rolled_back

SendToOthers == \E c \in Conns :
    /\ pc[c] = "send" /\ call[c].connection # SlowConsumer
    /\ Transmit(c) \/ SendDone(c)

NextSlowConsumer ==
    \/ JoinRoomOne
    \/ \E c \in Conns : AcceptOk(c)
    \/ CommitAndBegin
    \/ \E c \in Conns : Transmit(c)
    \/ \E c \in Conns : SendDone(c)
    \/ \E c \in Conns : Cleanup(c)

\* The event loop runs every task that is ready, and every send_json to a
\* client other than the slow one completes.
SpecSlowConsumer ==
    /\ Init
    /\ [][NextSlowConsumer]_vars
    /\ WF_vars(JoinRoomOne)
    /\ WF_vars(\E c \in Conns : AcceptOk(c))
    /\ WF_vars(CommitAndBegin)
    /\ WF_vars(SendToOthers)
    /\ WF_vars(\E c \in Conns : Cleanup(c))

\* History requests: two clients join rooms and stay, every commit succeeds,
\* an event reaches its client when send_json returns, and the history of a
\* room is requested at any time.
NextHistory ==
    \/ \E c \in Callers, room_id \in Rooms, u \in Users : Open(c, room_id, u)
    \/ \E c \in Conns : AcceptOk(c)
    \/ CommitAndBegin
    \/ \E c \in Conns : SendDone(c)
    \/ \E c \in Conns : Cleanup(c)
    \/ \E room_id \in Rooms, max \in 0..MaxLimit : GetRoomMessages(room_id, max)

SpecHistory == Init /\ [][NextHistory]_vars

\* Rooms under churn: as NextJoinLeave, but a connection joins any room.
NextChurn ==
    \/ \E c \in Conns, room_id \in Rooms, u \in Users :
           u.user_id = (IF c = 1 THEN 1 ELSE 2) /\ Open(c, room_id, u)
    \/ \E c \in Conns \ {NumConns} :
           pc[c] \in {"send", "receive"} /\ ClientClose(c)
    \/ \E c \in Conns : AcceptOk(c)
    \/ \E c \in Conns : RecvDisconnect(c)
    \/ \E c \in Conns : HandleDisconnect(c)
    \/ CommitAndBegin
    \/ \E c \in Conns : SendDone(c)
    \/ \E c \in Conns : Cleanup(c)

SpecChurn == Init /\ [][NextChurn]_vars

\* A task that holds the event loop takes its next step, and a pending
\* send_json returns or raises.
Progress ==
    \/ CommitAndBegin
    \/ \E c \in Conns : HandleDisconnect(c)
    \/ \E c \in Conns : SendDone(c)
    \/ \E c \in Conns : Cleanup(c)

\* One room in which connections join while the first one leaves: as
\* NextJoinLeave, but only the client of connection 1 closes.
NextOneLeaves ==
    \/ JoinRoomOne
    \/ pc[1] \in {"send", "receive"} /\ ClientClose(1)
    \/ \E c \in Conns : AcceptOk(c)
    \/ \E c \in Conns : RecvDisconnect(c)
    \/ \E c \in Conns : HandleDisconnect(c)
    \/ CommitAndBegin
    \/ \E c \in Conns : SendDone(c)
    \/ \E c \in Conns : Cleanup(c)

\* The event loop runs every task that is ready, and every send_json returns
\* or raises in the end.
SpecOneLeaves == Init /\ [][NextOneLeaves]_vars /\ WF_vars(Progress)

\* The user routes alone: accounts are created and deleted in any order.
NextUsers ==
    \/ \E username \in Usernames, email \in Emails : CreateUser(username, email)
    \/ \E user_id \in UserIds : DeleteUser(user_id)

SpecUsers == Init /\ [][NextUsers]_vars

\* ------------------------------------------------------------ properties
Members(lists, room_id) ==
    IF room_id \in DOMAIN lists THEN lists[room_id] ELSE <<>>

InSomeList(c) == \E r \in DOMAIN active_connections : c \in Elems(active_connections[r])

Delivered(c, message) == message \in Elems(received[c])

Persisted(message) == \E k \in DOMAIN db : db[k].content = message

\* The fan-out of c's broadcast_to_room call is under way or just over.
InFanOut(c) == pc[c] \in {"send", "cleanup"}

\* C1: a connection is in some room's list exactly when it has an entry in
\* user_info, and then the room of that entry is the one room whose list
\* holds it.
C1_RegistryBijection ==
    \A c \in Conns :
        /\ InSomeList(c) <=> c \in DOMAIN user_info
        /\ c \in DOMAIN user_info =>
               \A r \in Rooms :
                   c \in Elems(Members(active_connections, r))
                       <=> r = user_info[c].room_id

C1_Witness ==
    /\ removed # {}
    /\ \E c \in DOMAIN user_info : InSomeList(c)
    /\ \E c \in Conns : pc[c] = "send"

\* C2: the member list of each room holds exactly the connections that
\* completed connect for it and were not removed by disconnect since, each
\* once; a room without such a connection has no entry.
C2_MembersAreJoinedNotLeft ==
    \A r \in Rooms :
        LET present == { c \in connected \ removed : args[c].room_id = r }
        IN  /\ Elems(Members(active_connections, r)) = present
            /\ Len(Members(active_connections, r)) = Cardinality(present)
            /\ r \in DOMAIN active_connections <=> present # {}

C2_Witness ==
    /\ \E r \in Rooms : Len(Members(active_connections, r)) = 1 /\ list_id[r] = 1
    /\ \E r \in Rooms : r \notin DOMAIN active_connections /\ list_id[r] = 1
    /\ removed # {}

\* C3: a connection receives the events of a room in the order in which
\* they were committed: it never receives an event before one that was
\* committed earlier for the same room.
C3_DeliveryInCommitOrder ==
    \A c \in Conns : \A i, j \in 1..Len(received[c]) :
        i < j =>
            \A k, l \in DOMAIN db :
                ( /\ db[k].content = received[c][i]
                  /\ db[l].content = received[c][j]
                  /\ db[k].room_id = db[l].room_id ) => k < l

\* C4: while the broadcast of c for room r is between its commit and the
\* end of its send loop, no step commits a row for r, no other broadcast
\* for r completes a send, and r's member list does not change.
C4_RoomMutualExclusion ==
    [][ \A c \in Conns :
          (pc[c] = "send" /\ pc'[c] = "send" /\ call'[c] = call[c]) =>
              LET r == args[c].room_id
              IN  /\ Members(active_connections', r) = Members(active_connections, r)
                  /\ ~(Len(db') > Len(db) /\ db'[Len(db')].room_id = r)
                  /\ \A d \in Conns \ {c} :
                         (d \in DOMAIN args /\ args[d].room_id = r /\ pc[d] = "send")
                             => (pc'[d] = "send" /\ call'[d] = call[d])
      ]_vars

\* C5: every event delivered to a connection, and every event of a send in
\* progress, is already committed.
C5_PersistBeforeDelivery ==
    /\ \A c \in Conns : \A i \in 1..Len(received[c]) : Persisted(received[c][i])
    /\ \A c \in Conns : pc[c] = "send" => Persisted(call[c].message)

C5_Witness ==
    \E c \in Conns : \E i \in 1..Len(received[c]) :
        received[c][i].type = "message"

\* C6: an event whose commit failed is never delivered nor being sent, and
\* the step in which the commit fails leaves active_connections and
\* user_info as they are.
C6_NothingOnPersistFailure ==
    /\ [](\A f \in rolled_back : \A x \in Conns :
              /\ ~Delivered(x, f.message)
              /\ InFanOut(x) => call[x].message # f.message)
    /\ [][ rolled_back' # rolled_back =>
               /\ active_connections' = active_connections
               /\ user_info' = user_info ]_vars

C6_Witness ==
    /\ \E f \in rolled_back : f.message.type = "message"
    /\ \E c \in DOMAIN user_info : received[c] # <<>>

\* C7: when the commit of a chat message fails, the connection that sent
\* the message is sent a report of the failure, and no other connection is.
C7_PersistFailureReported ==
    \A f \in rolled_back :
        f.message.type = "message" =>
            /\ \E i \in 1..Len(received[f.conn]) : received[f.conn][i].type = "error"
            /\ \A x \in Conns \ {f.conn} :
                   \A i \in 1..Len(received[x]) : received[x][i].type # "error"

\* The connections that were members when the fan-out of c started, are
\* members still, and whose send did not fail.
Stayed(c) ==
    { x \in call[c].members0 :
          /\ x \in Elems(Members(active_connections, args[c].room_id))
          /\ x \notin Elems(call[c].disconnected) }

\* C8: when a send of a fan-out failed, at the end of the send loop every
\* other connection that was a member throughout has received the event, and
\* the cleanup that follows leaves the failing connections in no list and
\* not in user_info.
C8_SendFailureContained ==
    /\ [](\A c \in Conns :
              (pc[c] = "cleanup" /\ call[c].disconnected # <<>>) =>
                  \A x \in Stayed(c) : Delivered(x, call[c].message))
    /\ [][ \A c \in Conns :
               (pc[c] = "cleanup" /\ pc'[c] # "cleanup") =>
                   \A x \in Elems(call[c].disconnected) :
                       /\ x \notin DOMAIN user_info'
                       /\ \A r \in DOMAIN active_connections' :
                              x \notin Elems(active_connections'[r]) ]_vars

\* C9: at the end of the send loop, every connection that was a member when
\* the fan-out started, has not left and whose send did not fail has
\* received the event.
C9_SnapshotFanOut ==
    \A c \in Conns :
        pc[c] = "cleanup" => \A x \in Stayed(c) : Delivered(x, call[c].message)

\* C10: a connection that was not yet a member when the fan-out of an event
\* started does not receive that event.
C10_LateJoinerNotServed ==
    \A c \in Conns :
        InFanOut(c) =>
            \A x \in Conns \ call[c].members0 : ~Delivered(x, call[c].message)

\* C11: when the cleanup after a send loop removes a connection whose send
\* failed and members remain in its room, the task goes on to announce the
\* departure: it holds a user_left event with the id and the name of the
\* removed connection's metadata, to be committed and broadcast.
C11_FailedSendAnnounced ==
    [][ \A c \in Conns :
          (pc[c] = "cleanup" /\ pc'[c] # "cleanup") =>
              \A x \in Dropped(Registry, call[c].disconnected) :
                  user_info[x].room_id \in DOMAIN active_connections' =>
                      \E d \in DOMAIN call' :
                          /\ pc'[d] = "left"
                          /\ call'[d].message.type = "user_left"
                          /\ call'[d].message.user_id = user_info[x].user_id
                          /\ call'[d].message.username = user_info[x].username
      ]_vars

\* C12: a connection whose handler has ended, for whatever reason, is in no
\* room's list and has no entry in user_info.
C12_EndedHandlerUnregistered ==
    \A c \in Conns :
        pc[c] \in Ended => c \notin DOMAIN user_info /\ ~InSomeList(c)

\* C13: the step in which accept() fails, and the step of the handler's
\* except clause that may follow it, leave active_connections and user_info
\* as they are, commit nothing and deliver nothing; the connection is never
\* registered.
C13_FailedHandshakeNoEffect ==
    /\ [](\A c \in Conns :
              (c \notin connected /\ pc[c] \in {"except"} \cup Ended) =>
                  c \notin DOMAIN user_info /\ ~InSomeList(c))
    /\ [][ \A c \in Conns :
               ( \/ pc[c] = "accept" /\ pc'[c] \notin {"accept", "join"}
                 \/ pc[c] = "except" /\ c \notin connected /\ pc'[c] # "except" )
               => /\ active_connections' = active_connections
                  /\ user_info' = user_info
                  /\ db' = db
                  /\ received' = received
                  /\ call' = call ]_vars

C13_Witness ==
    \E c \in Conns :
        /\ c \notin connected
        /\ pc[c] = "done"
        /\ \E d \in DOMAIN user_info : received[d] # <<>>

\* C14: at the end of the send loop of a join notice, the notice is
\* committed, and the joining connection, unless a send to it failed, has
\* received it.
C14_OwnJoinNoticeReceived ==
    \A c \in Conns :
        (pc[c] = "cleanup" /\ call[c].kind = "join") =>
            /\ Persisted(call[c].message)
            /\ c \notin Elems(call[c].disconnected) =>
                   Delivered(c, call[c].message)

\* A text that is a JSON object whose content is missing, empty or made of
\* spaces only.
BlankText(text) ==
    /\ text.json = "object"
    /\ "content" \in DOMAIN text =>
           \A i \in 1..Len(text.content) : text.content[i] = " "

\* The step in which the handler of c takes a text from receive_text().
Receives(c) ==
    /\ pc[c] = "receive"
    /\ alive[c]
    /\ chats' = chats + 1
    /\ c \in DOMAIN data'
    /\ \A d \in Conns \ {c} : pc'[d] = pc[d]

\* C15: the step in which a connection receives a text whose content is
\* missing, empty or only spaces commits nothing, delivers nothing, starts no
\* broadcast and leaves the registry as it is; the connection stays
\* registered and waits for its next text.
C15_BlankTextIgnored ==
    [][ \A c \in Conns :
          (Receives(c) /\ BlankText(data'[c])) =>
              /\ db' = db
              /\ received' = received
              /\ call' = call
              /\ active_connections' = active_connections
              /\ user_info' = user_info
              /\ c \in DOMAIN user_info' /\ InSomeList(c)'
              /\ pc'[c] = "receive" ]_vars

C15_Witness ==
    \E c \in DOMAIN data :
        /\ BlankText(data[c])
        /\ "content" \in DOMAIN data[c] /\ data[c].content # <<>>
        /\ pc[c] = "receive"
        /\ Len(Members(active_connections, args[c].room_id)) = 2

\* t is s without its leading and trailing spaces, and is not empty.
IsTrimOf(t, s) ==
    /\ t # <<>> /\ Head(t) # " " /\ t[Len(t)] # " "
    /\ \E i \in 0..Len(s) :
           /\ i + Len(t) <= Len(s)
           /\ SubSeq(s, i + 1, i + Len(t)) = t
           /\ \A k \in 1..Len(s) : (k <= i \/ k > i + Len(t)) => s[k] = " "

Count(l, x) == Cardinality({ i \in 1..Len(l) : l[i] = x })

\* The send loop of c's chat message is over, no send failed, and the room
\* has the members it had when the loop started.
ChatFanOutClean(c) ==
    /\ pc[c] = "cleanup"
    /\ call[c].kind = "chat"
    /\ call[c].disconnected = <<>>
    /\ Elems(Members(active_connections, args[c].room_id)) = call[c].members0

\* C16: when the send loop of a chat message ends without a failed send and
\* with the membership it started with, the event is a "message" with the
\* trimmed content of the text and the sender's user_id, username and
\* room_id, exactly one row holds it, for the sender's room and user_id, and
\* every member of the room, the sender included, received it exactly once.
C16_ChatPersistedAndDeliveredOnce ==
    \A c \in Conns :
        ChatFanOutClean(c) =>
            LET e == call[c].message
            IN  /\ e.type = "message"
                /\ IsTrimOf(e.content, data[c].content)
                /\ e.user_id = args[c].user_id
                /\ e.username = args[c].username
                /\ e.room_id = args[c].room_id
                /\ Cardinality({ k \in DOMAIN db : db[k].content = e }) = 1
                /\ \A k \in DOMAIN db :
                       db[k].content = e =>
                           /\ db[k].room_id = args[c].room_id
                           /\ db[k].user_id = args[c].user_id
                /\ c \in call[c].members0
                /\ \A x \in call[c].members0 : Count(received[x], e) = 1

C16_Witness ==
    \E c \in Conns :
        /\ ChatFanOutClean(c)
        /\ Cardinality(call[c].members0) = 2
        /\ call[c].message.content # data[c].content
        /\ args[c].user_id # args[c].room_id

\* C17: disconnect on a registry it was already applied to changes nothing
\* and returns no metadata; and a disconnect of a connection that was removed
\* before, from the handler's except clause or from a cleanup loop, leaves
\* active_connections and user_info as they are, commits nothing, delivers
\* nothing and builds no user_left message.
C17_DisconnectIdempotent ==
    /\ [](\A c \in Conns :
              LET once == RegistryDisconnect(Registry, c)
              IN  /\ RegistryDisconnect(once, c) = once
                  /\ ~HasUserData(once, c))
    /\ [][ \A c \in Conns :
               /\ (pc[c] = "except" /\ c \in removed /\ pc'[c] # "except") =>
                      /\ active_connections' = active_connections
                      /\ user_info' = user_info
                      /\ db' = db /\ received' = received /\ call' = call
                      /\ pc'[c] = "done"
               /\ ( /\ pc[c] = "cleanup" /\ pc'[c] # "cleanup"
                    /\ Elems(call[c].disconnected) \subseteq removed ) =>
                      /\ active_connections' = active_connections
                      /\ user_info' = user_info
                      /\ db' = db /\ received' = received ]_vars

\* The handler of c ended after a cleanup loop had removed c: a member d of
\* its room saw c join and is still there, and no user_left was ever built.
C17_Witness ==
    \E c \in removed :
        /\ pc[c] = "done"
        /\ \A k \in DOMAIN db : db[k].content.type # "user_left"
        /\ \A f \in rolled_back : f.message.type # "user_left"
        /\ \E d \in DOMAIN user_info :
               /\ args[d].room_id = args[c].room_id
               /\ args[d].user_id # args[c].user_id
               /\ \E i \in 1..Len(received[d]) :
                      /\ received[d][i].type = "user_joined"
                      /\ received[d][i].user_id = args[c].user_id

\* C18: for a connection that never completed connect, disconnect returns no
\* metadata and is the identity on the registry; the except clause that
\* calls it leaves every room's member list and every other connection's
\* metadata as they are and ends the handler without a user_left message.
C18_DisconnectNeverJoined ==
    /\ [](\A c \in Conns \ connected :
              /\ ~HasUserData(Registry, c)
              /\ RegistryDisconnect(Registry, c) = Registry)
    /\ [][ \A c \in Conns \ connected :
               (pc[c] = "except" /\ pc'[c] # "except") =>
                   /\ \A r \in Rooms :
                          Members(active_connections', r) = Members(active_connections, r)
                   /\ \A d \in Conns \ {c} :
                          /\ d \in DOMAIN user_info' <=> d \in DOMAIN user_info
                          /\ d \in DOMAIN user_info => user_info'[d] = user_info[d]
                   /\ c \notin DOMAIN call'
                   /\ pc'[c] = "done" ]_vars

C18_Witness ==
    \E c \in Conns \ connected :
        /\ pc[c] = "done"
        /\ \E d \in DOMAIN user_info :
               args[d].room_id = args[c].room_id /\ pc[d] = "receive"

\* C20: when the except clause disconnects the only member of a room, the
\* room's entry and the member's metadata are gone after the step; the
\* user_left broadcast that follows finds no room: it returns to the handler,
\* which ends normally, with nothing committed, nothing rolled back and
\* nothing delivered.
C20_LastMemberLeavesQuietly ==
    [][ \A c \in Conns :
          /\ ( /\ pc[c] = "except" /\ pc'[c] # "except"
               /\ HasUserData(Registry, c)
               /\ Members(active_connections, user_info[c].room_id) = <<c>> ) =>
                 /\ user_info[c].room_id \notin DOMAIN active_connections'
                 /\ c \notin DOMAIN user_info'
                 /\ pc'[c] = "left"
          /\ ( /\ pc[c] = "left" /\ pc'[c] # "left"
               /\ args[c].room_id \notin DOMAIN active_connections ) =>
                 /\ pc'[c] = "done"
                 /\ c \notin DOMAIN call'
                 /\ db' = db
                 /\ rolled_back' = rolled_back
                 /\ received' = received ]_vars

\* c was the only connection ever registered for its room, took a text that
\* started no broadcast, and its handler ended: the except clause removed it.
C20_Witness ==
    \E c \in removed :
        /\ pc[c] = "done"
        /\ { x \in connected : args[x].room_id = args[c].room_id } = {c}
        /\ c \in DOMAIN data /\ BlankText(data[c])
        /\ args[c].room_id \notin DOMAIN active_connections
        /\ \E d \in DOMAIN user_info : pc[d] = "receive"

\* C19: at the end of the send loop of a user_left event, the event carries
\* the id and the name under which the departed connection was registered
\* and is committed; every connection that was a member when the loop
\* started, is a member still and whose send did not fail has received it;
\* and the departed connection never receives it.
C19_LeftReachesRemainingMembers ==
    \A c \in Conns :
        (pc[c] = "cleanup" /\ call[c].kind = "left") =>
            LET e == call[c].message
            IN  /\ e.type = "user_left"
                /\ e.user_id = args[c].user_id /\ e.username = args[c].username
                /\ Persisted(e)
                /\ ~Delivered(c, e)
                /\ \A x \in Stayed(c) : Delivered(x, e)

\* C21: every key of active_connections maps to a non-empty list; an entry
\* appears only in the step that registers its first member, and disappears
\* only in a step that removes each of the members it had.
C21_NoEmptyRoom ==
    /\ [](\A r \in DOMAIN active_connections : active_connections[r] # <<>>)
    /\ [][ \A r \in Rooms :
               /\ (r \notin DOMAIN active_connections /\ r \in DOMAIN active_connections') =>
                      \E c \in Conns :
                          /\ pc[c] = "accept" /\ pc'[c] = "join"
                          /\ args[c].room_id = r
                          /\ active_connections'[r] = <<c>>
               /\ (r \in DOMAIN active_connections /\ r \notin DOMAIN active_connections') =>
                      Elems(active_connections[r]) \subseteq removed' \ removed ]_vars

\* A room lost its entry while another room kept members.
C21_Witness ==
    \E r, q \in Rooms :
        /\ r \notin DOMAIN active_connections /\ list_id[r] > 0
        /\ q \in DOMAIN active_connections
        /\ \E c \in removed : args[c].room_id = r /\ pc[c] = "receive"

\* C22: no connection is in the member lists of two different rooms.
C22_AtMostOneRoom ==
    \A c \in Conns : \A r, q \in DOMAIN active_connections :
        (c \in Elems(active_connections[r]) /\ c \in Elems(active_connections[q]))
            => r = q

\* Two rooms have members at the same time.
C22_Witness ==
    \E r, q \in DOMAIN active_connections :
        /\ r # q
        /\ \E c \in Conns : pc[c] = "receive" /\ c \in Elems(active_connections[r])
        /\ \E c \in Conns : pc[c] = "send" /\ c \in Elems(active_connections[q])

\* The lifecycle state of a connection.
Phase(c) ==
    IF c \in DOMAIN user_info THEN "Joined"
    ELSE IF pc[c] = "accept" THEN "Connecting"
    ELSE IF c \in removed THEN "Left"
    ELSE IF pc[c] = "idle" THEN "Disconnected"
    ELSE "Failed"

Lifecycle ==
    { <<"Disconnected", "Connecting">>, <<"Connecting", "Joined">>,
      <<"Connecting", "Failed">>, <<"Joined", "Left">> }

\* C23: every step leaves the lifecycle state of a connection as it is or
\* moves it along Disconnected -> Connecting -> Joined -> Left or
\* Connecting -> Failed; nothing leads out of Left or Failed, and a
\* connection disconnect returned metadata for is never registered again.
C23_Lifecycle ==
    [][ \A c \in Conns :
          /\ Phase(c)' = Phase(c) \/ <<Phase(c), Phase(c)'>> \in Lifecycle
          /\ c \in removed => c \notin DOMAIN user_info' /\ ~InSomeList(c)' ]_vars

C23_Witness ==
    \E c, d \in Conns :
        /\ Phase(c) = "Left" /\ pc[c] = "done"
        /\ Phase(d) = "Failed" /\ pc[d] = "done"

\* A text that is not JSON, is JSON but not an object, or is an object whose
\* content is not a string.
MalformedText(text) ==
    \/ text.json \in {"invalid", "array"}
    \/ "number" \in DOMAIN text

\* C24: the step in which a connection receives a text that is not JSON, not
\* a JSON object, or whose content is not a string commits nothing, delivers
\* nothing, starts no broadcast and leaves the registry as it is; the
\* connection stays registered and its handler waits for the next text.
C24_MalformedTextIgnored ==
    [][ \A c \in Conns :
          (Receives(c) /\ MalformedText(data'[c])) =>
              /\ db' = db /\ rolled_back' = rolled_back
              /\ received' = received
              /\ call' = call
              /\ active_connections' = active_connections
              /\ user_info' = user_info
              /\ c \in DOMAIN user_info' /\ InSomeList(c)'
              /\ alive'[c]
              /\ pc'[c] = "receive" ]_vars

C24_Witness ==
    \E c \in DOMAIN data :
        /\ "number" \in DOMAIN data[c]
        /\ pc[c] = "receive" /\ alive[c]
        /\ Len(Members(active_connections, args[c].room_id)) = 2

\* C25: once a fan-out is suspended in a send, every connection other than
\* the slow consumer that was a member of the room when the fan-out started
\* eventually receives the event, whether or not the sends to the slow
\* consumer complete.
C25_SlowConsumerNoStall ==
    \A c \in Conns : \A y \in Conns \ {SlowConsumer} : \A t \in 0..NumConns :
        (pc[c] = "send" /\ call[c].message.timestamp = t /\ y \in call[c].members0)
            ~> (\E i \in 1..Len(received[y]) : received[y][i].timestamp = t)

\* The rows of room_id at its last n positions of rows, n being max or the
\* number of the room's rows if that is less.
MostRecent(rows, room_id, max) ==
    LET K == RoomRows(rows, room_id)
        n == IF max < Cardinality(K) THEN max ELSE Cardinality(K)
    IN  { rows[k] : k \in { k \in K : Cardinality({ j \in K : j > k }) < n } }

\* C26: a get_room_messages request returns at most max rows, each of the
\* requested room, and they are the rows of that room committed last.
C26_MostRecentMessages ==
    [][ response' # response =>
            LET r == response'.room_id
                got == response'.messages
            IN  /\ Len(got) <= response'.max
                /\ \A i \in 1..Len(got) : got[i].room_id = r
                /\ Elems(got) = MostRecent(db, r, response'.max) ]_vars

\* C27: the cleanup after a send loop leaves every connection that is not in
\* its disconnected list where it was: in the same room's list, with the same
\* metadata, and in the same order among the connections that stay.
C27_CleanupRemovesOnlyFailed ==
    [][ \A c \in Conns :
          (pc[c] = "cleanup" /\ pc'[c] # "cleanup") =>
              LET failed == Elems(call[c].disconnected)
                  Keep(l) == SelectSeq(l, LAMBDA x : x \notin failed)
              IN  /\ \A r \in Rooms :
                         Members(active_connections', r)
                             = Keep(Members(active_connections, r))
                  /\ \A x \in Conns \ failed :
                         /\ x \in DOMAIN user_info' <=> x \in DOMAIN user_info
                         /\ x \in DOMAIN user_info => user_info'[x] = user_info[x]
                  /\ removed' \ removed \subseteq failed ]_vars

\* A cleanup removed a connection whose handler is still waiting, from a room
\* that keeps another member.
C27_Witness ==
    \E x \in removed : \E d \in DOMAIN user_info :
        /\ pc[x] = "receive"
        /\ args[d].room_id = args[x].room_id
        /\ pc[d] = "receive" /\ alive[d]

\* The metadata connect recorded for c.
Recorded(c) ==
    [ user_id |-> args[c].user_id, username |-> args[c].username,
      room_id |-> args[c].room_id ]

\* C28: for every registered connection c, the metadata disconnect returns
\* is what c's connect recorded, and the registry disconnect leaves has c in
\* no list and not in user_info, the other members of c's room in their
\* order, every other room's list and every other connection's metadata as
\* before; the except clause builds its user_left message from that
\* metadata.
C28_DisconnectReturnsMetadata ==
    /\ [](\A c \in DOMAIN user_info :
              LET after == RegistryDisconnect(Registry, c)
                  room == user_info[c].room_id
              IN  /\ HasUserData(Registry, c)
                  /\ user_info[c] = Recorded(c)
                  /\ c \notin DOMAIN after.user_info
                  /\ \A r \in DOMAIN after.active_connections :
                         c \notin Elems(after.active_connections[r])
                  /\ Members(after.active_connections, room)
                         = SelectSeq(active_connections[room], LAMBDA x : x # c)
                  /\ \A r \in Rooms \ {room} :
                         Members(after.active_connections, r)
                             = Members(active_connections, r)
                  /\ \A d \in DOMAIN user_info \ {c} :
                         /\ d \in DOMAIN after.user_info
                         /\ after.user_info[d] = user_info[d]
                  /\ DOMAIN after.user_info \subseteq DOMAIN user_info)
    /\ [][ \A c \in DOMAIN user_info :
               (pc[c] = "except" /\ pc'[c] # "except") =>
                   /\ pc'[c] = "left"
                   /\ call'[c].message.user_id = Recorded(c).user_id
                   /\ call'[c].message.username = Recorded(c).username
                   /\ c \notin DOMAIN user_info' /\ ~InSomeList(c)' ]_vars

\* The except clause just removed a connection from a room of two.
C28_Witness ==
    \E c \in removed :
        /\ pc[c] = "left"
        /\ Len(Members(active_connections, args[c].room_id)) = 1
        /\ \E d \in DOMAIN user_info : pc[d] = "receive" /\ received[d] # <<>>

\* C29: the metadata of a registered connection is what its connect
\* recorded, and no step changes the metadata of a connection that stays
\* registered.
C29_MetadataImmutable ==
    /\ [](\A c \in DOMAIN user_info : user_info[c] = Recorded(c))
    /\ [][ \A c \in DOMAIN user_info :
               c \in DOMAIN user_info' => user_info'[c] = user_info[c] ]_vars

\* Two connections of the same user are registered for different rooms and
\* both handlers are in their receive loop.
C29_Witness ==
    \E c, d \in DOMAIN user_info :
        /\ c # d
        /\ user_info[c].user_id = user_info[d].user_id
        /\ user_info[c].room_id # user_info[d].room_id
        /\ pc[c] = "receive" /\ pc[d] = "receive"

\* C30: a broadcast_to_room call whose room has no entry in
\* active_connections persists nothing, rolls nothing back, sends nothing,
\* leaves the registry as it is and returns to its caller without raising.
C30_AbsentRoomBroadcastNoOp ==
    [][ \A c \in Conns :
            ( /\ pc[c] \in {"join", "chat", "left"}
              /\ args[c].room_id \notin DOMAIN active_connections
              /\ pc'[c] # pc[c] )
            => /\ db' = db
               /\ rolled_back' = rolled_back
               /\ received' = received
               /\ Registry' = Registry
               /\ c \notin DOMAIN call'
               /\ pc'[c] = Return(call[c].kind) ]_vars

\* The message built last was dropped by a broadcast to an absent room: it
\* is neither stored, nor rolled back, nor pending, nor received, while
\* another room has members that did receive events.
C30_Witness ==
    /\ clock > 0
    /\ \A i \in 1..Len(db) : db[i].content.timestamp # clock - 1
    /\ \A r \in rolled_back : r.message.timestamp # clock - 1
    /\ \A c \in DOMAIN call : call[c].message.timestamp # clock - 1
    /\ \A c \in Conns : \A i \in 1..Len(received[c]) :
           received[c][i].timestamp # clock - 1
    /\ \E d \in DOMAIN user_info : received[d] # <<>>

\* C31: a send_json of a broadcast for room R goes to a connection that
\* connect recorded with room_id R, and every event a connection has
\* received is stored as an event of the room that connection joined, also
\* after the room's entry was deleted and recreated during a fan-out.
C31_RoomIsolation ==
    /\ \A c \in Conns :
           pc[c] = "send" =>
               /\ call[c].connection \in connected
               /\ Recorded(call[c].connection).room_id = args[c].room_id
    /\ \A x \in Conns : \A i \in 1..Len(received[x]) :
           /\ Persisted(received[x][i])
           /\ \A k \in DOMAIN db :
                  db[k].content = received[x][i] => db[k].room_id = args[x].room_id

\* A fan-out is suspended in a send while the entry of its room has been
\* deleted and recreated by a later join, and a member of the recreated room
\* has received an event.
C31_Witness ==
    \E c \in Conns :
        /\ pc[c] = "send"
        /\ args[c].room_id \in DOMAIN active_connections
        /\ list_id[args[c].room_id] # call[c].lst
        /\ \E d \in Elems(active_connections[args[c].room_id]) : received[d] # <<>>

\* C32: no connection receives the event of one broadcast_to_room call more
\* than once, and the disconnected list of a call holds no connection more
\* than once, whatever joins and leaves happen while the call is suspended.
C32_NoDuplicateDelivery ==
    /\ \A x \in Conns : \A i, j \in 1..Len(received[x]) :
           received[x][i] = received[x][j] => i = j
    /\ \A c \in DOMAIN call : \A i, j \in 1..Len(call[c].disconnected) :
           call[c].disconnected[i] = call[c].disconnected[j] => i = j

\* A send loop has ended during which a send failed and a connection that
\* joined after the loop started was served.
C32_Witness ==
    \E c \in Conns :
        /\ pc[c] = "cleanup"
        /\ call[c].disconnected # <<>>
        /\ \E x \in Conns \ call[c].members0 : Delivered(x, call[c].message)

\* C33: the first event a connection receives is the user_joined notice of
\* its own join: a notice that carries the connection's own user.
C33_FirstEventIsOwnJoin ==
    \A x \in Conns :
        received[x] # <<>> =>
            /\ received[x][1].type = "user_joined"
            /\ received[x][1].user_id = args[x].user_id
            /\ received[x][1].username = args[x].username

\* C34: disconnect never raises: in every reachable state a connection with
\* an entry in user_info whose room has an entry in active_connections is in
\* that room's list, so list.remove finds it, in the handler's except clause
\* and in every disconnect of a cleanup loop that is about to run.
C34_DisconnectNeverRaises ==
    /\ \A c \in Conns : ~RemoveRaises(Registry, c)
    /\ \A c \in Conns :
           pc[c] = "cleanup" => ~CleanupRaises(Registry, call[c].disconnected)

\* A cleanup loop is about to disconnect a connection whose send failed and
\* which its own handler has removed in the meantime, while the room still
\* has an entry.
C34_Witness ==
    \E c \in Conns :
        /\ pc[c] = "cleanup"
        /\ args[c].room_id \in DOMAIN active_connections
        /\ \E x \in Elems(call[c].disconnected) :
               x \in removed /\ x \notin DOMAIN user_info

\* C35: every connection being passed to connect at most once, no room's
\* member list holds the same connection at two positions.
C35_NoDuplicateMember ==
    \A r \in DOMAIN active_connections :
        \A i, j \in 1..Len(active_connections[r]) :
            active_connections[r][i] = active_connections[r][j] => i = j

\* A room holds two members after the cleanup of a fan-out removed a third
\* connection whose handler has not yet noticed that its client is gone.
C35_Witness ==
    \E r \in DOMAIN active_connections :
        /\ Len(active_connections[r]) = 2
        /\ \E x \in removed :
               args[x].room_id = r /\ pc[x] \in {"send", "receive"} /\ ~alive[x]

\* C36: every broadcast_to_room call terminates: a task that is in a call,
\* before its loop, suspended in a send or in the cleanup, gets out of that
\* call, whatever connections join or leave the room meanwhile.
C36_BroadcastTerminates ==
    \A c \in Conns : (c \in DOMAIN call) ~> (c \notin DOMAIN call)

\* Every call has returned after connection 1 left and was removed while the
\* two others joined, and connection 2 was served an event of connection 1
\* before any other.
C36_Witness ==
    /\ DOMAIN call = {}
    /\ 1 \in removed /\ pc[1] = "done"
    /\ pc[2] = "receive" /\ pc[3] = "receive"
    /\ received[2] # <<>> /\ received[2][1].user_id = args[1].user_id

\* C37: no two stored users share a username and no two share an email, and
\* a create_user whose username or email is already stored answers 400 and
\* leaves the stored users as they are.
C37_UniqueUsers ==
    /\ [](\A u, v \in users :
              (u.username = v.username \/ u.email = v.email) => u = v)
    /\ [][ ( /\ user_response'.op = "create"
             /\ \E u \in users : \/ u.username = user_response'.username
                                 \/ u.email = user_response'.email )
           => /\ user_response'.status_code = 400
              /\ users' = users ]_vars

\* After a user was deleted, two users are stored and a create_user with a
\* new username and the email of one of them was refused.
C37_Witness ==
    /\ Cardinality(users) = 2
    /\ \E i \in UserIds : UserFromId(users, i) = {} /\ i < NextRowId(users)
    /\ user_response.op = "create"
    /\ user_response.status_code = 400
    /\ UserFromUsername(users, user_response.username) = {}
    /\ UserFromEmail(users, user_response.email) # {}

====
